---------------------------- MODULE Spec2Model ----------------------------
(* Model of the Eurostat SDK (src/eurostat/eurostat_sdk.py) and of the     *)
(* HTTP layer that drives it (src/eurostat/api.py): the time-bounded       *)
(* response cache of get_dataset, the JSON-stat decoder                    *)
(* process_dataset_to_json, and the generate_data request handler; and of  *)
(* the dispatch of the financial generate_data                             *)
(* (src/yahoo_finance/yahoo_finance_sdk.py).                               *)
(*                                                                         *)
(* Python values are modelled as follows.  A dict whose order matters is a *)
(* sequence of <<key, value>> pairs in insertion order.  None is the       *)
(* record PyNone, the empty JSON object {} is EmptyObj.  A call's result   *)
(* is a record with exc = "none" and the returned value, or with exc the   *)
(* name of the exception that leaves the function.                         *)
EXTENDS Integers, Sequences, FiniteSets, TLC

VARIABLES
    now,        \* time.time(), in seconds
    ticks,      \* how often the clock has advanced (bounds the run)
    files,      \* the cache files on disk, by file name
    call,       \* the get_dataset call just made: its arguments and what it did
    dataset_json, \* the object a caller holds and hands to process_dataset_to_json
    dec,        \* the last process_dataset_to_json call on it
    prev,       \* the result of the process_dataset_to_json call before that one
    requests,   \* how many generate_data requests have been served
    response,   \* the generate_data request just served: its inputs and its outcome
    threads,    \* concurrent callers of get_dataset: where each one is in it
    saved,      \* the output directories of the financial SDK, by ticker
    reply       \* the financial generate_data call just made

vars == <<now, ticks, files, call, dataset_json, dec, prev, requests, response,
          threads, saved, reply>>
cache_vars == <<now, ticks, files, call>>
decode_vars == <<dataset_json, dec, prev>>
api_vars == <<requests, response>>
conc_vars == <<threads>>
yahoo_vars == <<saved, reply>>

-----------------------------------------------------------------------------
(* Bounds of the model *)

MaxTicks == 2
MaxIdx == 4
MaxVals == 2
MaxCalls == 2
MaxRequests == 2

-----------------------------------------------------------------------------
(* Python values *)

PyNone == [tag |-> "None"]
EmptyObj == [tag |-> "empty"]

\* bool(v) of a value that is None, a dict or a list
Truthy(v) == v.tag \notin {"None", "empty"}

Returns(v) == [exc |-> "none", value |-> v]
Raises(e) == [exc |-> e, value |-> PyNone]

-----------------------------------------------------------------------------
(* The remote provider *)

DatasetIds == {"nama_10_gdp", "env_air_gge"}
GeoParams == {"IT"}
FormatTypes == {"json", "sdmx", "xml"}
CacheFiles == {"cache.json", "gdp_cache.json"}

\* output/output_{_id}/raw_data.json of the n-th generate_data request: _id is
\* a fresh uuid4, so every request has a file of its own
RawDataFile(n) ==
    <<"output_1/raw_data.json", "output_2/raw_data.json",
      "output_3/raw_data.json", "output_4/raw_data.json">>[n]
RawDataFiles == {RawDataFile(n) : n \in 1..4}

\* default of the timeout parameter of _load_cache; get_dataset never passes another
DefaultTimeout == 3600

\* the category dicts {key: label} of the axes, in declared order
TimeCategories == << <<"2020", "Y2020">>, <<"2021", "Y2021">> >>
NaItemCategories == << <<"B1GQ", "GDP">>, <<"P3", "CPI">> >>
GeoLabel(geo) == IF geo = "IT" THEN "Italy" ELSE "Germany"
UnitCategories == << <<"CP_MEUR", "EUR">> >>

\* a decimal string, as the sequence of its digits ("10" is <<1, 0>>)
RECURSIVE Str(_)
Str(i) == IF i < 10 THEN <<i>> ELSE Str(i \div 10) \o <<i % 10>>

\* int(value_key)
RECURSIVE PyInt(_)
PyInt(digits) ==
    IF Len(digits) = 0 THEN 0
    ELSE 10 * PyInt(SubSeq(digits, 1, Len(digits) - 1)) + digits[Len(digits)]

\* response.json() of the provider for one dataset, one geo filter and one
\* revision of the provider's data: a JSON-stat object
RemoteDataset(dataset_id, geo, rev) ==
    [tag |-> "dataset",
     id |-> dataset_id,
     dimension |-> [time |-> TimeCategories,
                    na_item |-> NaItemCategories,
                    geo |-> << <<geo, GeoLabel(geo)>> >>,
                    unit |-> UnitCategories],
     value |-> << <<Str(0), 100 * rev>>, <<Str(1), 200 * rev>>,
                  <<Str(2), 5 * rev>>, <<Str(3), 7 * rev>> >>]

\* the revisions of its data the provider serves over time
Revisions == {1, 2}

\* what requests.get(...).json() can do: raise, or deliver a body.  The
\* exceptions are one for each except clause of _make_request, ConnectionError
\* standing for everything only "except Exception" catches (an undecodable
\* body too).  A body is the dataset asked for, or the empty object
TransportErrors == {"HTTPError", "Timeout", "ConnectionError"}
Bodies(dataset_id, geo) ==
    {RemoteDataset(dataset_id, geo, rev) : rev \in Revisions} \cup {EmptyObj}
RemoteOutcomes(dataset_id, geo) ==
    {Raises(e) : e \in TransportErrors} \cup {Returns(b) : b \in Bodies(dataset_id, geo)}

\* a _make_request whose generic "except Exception" is missing
make_request_two_handlers(outcome) ==
    IF outcome.exc = "none" THEN Returns(outcome.value)
    ELSE IF outcome.exc \in {"HTTPError", "Timeout"} THEN Returns(PyNone)
    ELSE outcome

\* _make_request: the body, or None after any exception of the transport
\* (except HTTPError, except Timeout, except Exception)
make_request(outcome) ==
    IF outcome.exc = "none" THEN Returns(outcome.value) ELSE Returns(PyNone)

-----------------------------------------------------------------------------
(* The cache file *)

Absent == [kind |-> "absent"]
Garbage == [kind |-> "garbage"]      \* a file that is not JSON
JsonFile(obj) == [kind |-> "json", obj |-> obj]

\* _cache_response: the content written to cache_file
cache_response(data, current_time) ==
    JsonFile([data |-> data, timestamp |-> current_time])

\* freshness tests that differ from the one of _load_cache
IsFresh_inverted(timestamp, current_time, timeout) == current_time - timestamp > timeout
IsFresh_inclusive(timestamp, current_time, timeout) == current_time - timestamp <= timeout

\* the freshness test of _load_cache
IsFresh(timestamp, current_time, timeout) == current_time - timestamp < timeout

\* _load_cache: the data if the entry is fresh, None if the file is absent or
\* the entry stale; json.load and the subscripts raise on a malformed file
load_cache(file, current_time, timeout) ==
    IF file.kind = "absent" THEN Returns(PyNone)
    ELSE IF file.kind = "garbage" THEN Raises("JSONDecodeError")
    ELSE IF "timestamp" \notin DOMAIN file.obj THEN Raises("KeyError")
    ELSE IF IsFresh(file.obj.timestamp, current_time, timeout)
         THEN IF "data" \notin DOMAIN file.obj THEN Raises("KeyError")
              ELSE Returns(file.obj.data)
    ELSE Returns(PyNone)

-----------------------------------------------------------------------------
(* Ordered dicts: a sequence of <<key, value>> pairs with distinct keys *)

EmptyDict == << >>
DictKeys(d) == [i \in 1..Len(d) |-> d[i][1]]
DictHas(d, k) == \E i \in 1..Len(d) : d[i][1] = k
DictGet(d, k) == d[CHOOSE i \in 1..Len(d) : d[i][1] = k][2]
\* d[k] = v: replaces the value in place, or appends a new key
DictSet(d, k, v) ==
    IF DictHas(d, k)
    THEN [i \in 1..Len(d) |-> IF d[i][1] = k THEN <<k, v>> ELSE d[i]]
    ELSE Append(d, <<k, v>>)

-----------------------------------------------------------------------------
(* process_dataset_to_json *)

\* where the file system can refuse a write of process_dataset_to_json
IoFailures == {"makedirs", "table_json", "table_csv", "final_output"}
IoOutcomes == {"ok"} \cup IoFailures

\* both callers pass save_separate_tables=True and save_csv=True
save_separate_tables == TRUE
save_csv == TRUE

\* an indicator_dfs that outlives the call (a dict kept on the object or in
\* a mutable default argument)
NewIndicatorDfs_kept == dec.indicator_dfs

\* line 140: indicator_dfs = {}
NewIndicatorDfs == EmptyDict

\* lines 151-152: the positions of the time and of the na_item category
TimePosition(idx, time_labels) == idx % Len(time_labels)

\* an indicator position that forgets the stride of the time axis
NaItemPosition_no_stride(idx, time_labels, na_item_labels) ==
    idx % Len(na_item_labels)

NaItemPosition(idx, time_labels, na_item_labels) ==
    (idx \div Len(time_labels)) % Len(na_item_labels)

\* lines 172-189: the row of one value
Row(time, geo, unit, value) ==
    [time |-> time, geo |-> geo, unit |-> unit, value |-> value]

\* a row that replaces the rows of its indicator
AddRow_replacing(rows, row) == <<row>>

\* lines 180-189: the row is appended to the list of its indicator
AddRow(rows, row) == Append(rows, row)

\* lines 147-189: the loop over values.items(), from the k-th item on, with
\* indicator_dfs as built so far.  Gives the dict built, or the exception of
\* the first item that raises.
RECURSIVE DecodeLoop(_, _, _, _)
DecodeLoop(dimension, values, k, indicator_dfs) ==
    IF k > Len(values) THEN [exc |-> "none", indicator_dfs |-> indicator_dfs]
    ELSE
      LET idx == PyInt(values[k][1])
          value == values[k][2]
          time_labels == dimension.time
          na_item_labels == dimension.na_item
          geo_labels == dimension.geo
          unit_labels == dimension.unit
      IN  IF Len(time_labels) = 0 \/ Len(na_item_labels) = 0
              THEN [exc |-> "ZeroDivisionError", indicator_dfs |-> indicator_dfs]
          ELSE IF Len(geo_labels) = 0 \/ Len(unit_labels) = 0
              THEN [exc |-> "IndexError", indicator_dfs |-> indicator_dfs]
          ELSE
            LET time_key == DictKeys(time_labels)[TimePosition(idx, time_labels) + 1]
                na_item_key == DictKeys(na_item_labels)
                                 [NaItemPosition(idx, time_labels, na_item_labels) + 1]
                time == DictGet(time_labels, time_key)
                na_item == DictGet(na_item_labels, na_item_key)
                geo == DictKeys(geo_labels)[1]
                unit == DictKeys(unit_labels)[1]
                rows == IF DictHas(indicator_dfs, na_item)
                        THEN DictGet(indicator_dfs, na_item) ELSE << >>
            IN  DecodeLoop(dimension, values, k + 1,
                           DictSet(indicator_dfs, na_item,
                                   AddRow(rows, Row(time, geo, unit, value))))

\* pd.DataFrame(records).to_json(orient='records'): the JSON text of the rows
to_json(records) == [json |-> records]
\* json.loads of that text
json_loads(text) == text.json

\* lines 192-195: json_result, one JSON text per indicator, in the order of
\* indicator_dfs
JsonResult(indicator_dfs) ==
    [tag |-> "table",
     items |-> [i \in 1..Len(indicator_dfs) |->
                  <<indicator_dfs[i][1], to_json(indicator_dfs[i][2])>>]]

RequiredAxes == <<"time", "na_item", "geo", "unit">>

\* process_dataset_to_json(dataset_json) with data = dataset_json['data'] and
\* io saying which write the file system refuses, if any.  Gives the result
\* of the call and the indicator_dfs it built.
process_dataset_to_json(data, io) ==
    LET none == NewIndicatorDfs IN
    IF io = "makedirs"
        THEN [result |-> Raises("OSError"), indicator_dfs |-> none]
    ELSE IF data = PyNone
        \* 'dimension' in None
        THEN [result |-> Raises("TypeError"), indicator_dfs |-> none]
    ELSE IF "dimension" \notin DOMAIN data
        \* the else branch prints and the function ends: None
        THEN [result |-> Returns(PyNone), indicator_dfs |-> none]
    ELSE IF \E i \in 1..Len(RequiredAxes) : RequiredAxes[i] \notin DOMAIN data.dimension
        THEN [result |-> Raises("KeyError"), indicator_dfs |-> none]
    ELSE
      LET loop == DecodeLoop(data.dimension, data.value, 1, NewIndicatorDfs)
          n == Len(loop.indicator_dfs)
      IN  IF loop.exc # "none"
              THEN [result |-> Raises(loop.exc), indicator_dfs |-> loop.indicator_dfs]
          ELSE IF n > 0 /\ save_separate_tables /\ io = "table_json"
              THEN [result |-> Raises("OSError"), indicator_dfs |-> loop.indicator_dfs]
          ELSE IF n > 0 /\ save_csv /\ io = "table_csv"
              THEN [result |-> Raises("OSError"), indicator_dfs |-> loop.indicator_dfs]
          ELSE IF io = "final_output"
              THEN [result |-> Raises("OSError"), indicator_dfs |-> loop.indicator_dfs]
          ELSE [result |-> Returns(JsonResult(loop.indicator_dfs)),
                indicator_dfs |-> loop.indicator_dfs]

-----------------------------------------------------------------------------
(* get_dataset *)

SupportedFormats == {"json", "sdmx"}

\* line 91, "if cached_data:": the loaded value is used when it is truthy
CacheHit(cached_data) == Truthy(cached_data)

\* a get_dataset that stores whatever _make_request returned
StoresResponse_always(dataset, cache) == cache

\* lines 103-106: the fetched dataset is stored when it is truthy and cache is set
StoresResponse(dataset, cache) == Truthy(dataset) /\ cache

\* get_dataset(dataset_id, params, format_type, cache, cache_file) at time
\* current_time, with `file` the content of cache_file and `outcome` what the
\* transport does if it is asked.  Gives the result of the call, the content
\* of cache_file after it and the number of calls of _make_request.
get_dataset(file, current_time, format_type, cache, outcome) ==
    LET loaded == IF cache THEN load_cache(file, current_time, DefaultTimeout)
                  ELSE Returns(PyNone)
        requested == make_request(outcome)
        dataset == requested.value
    IN  IF loaded.exc # "none"
            THEN [result |-> loaded, file |-> file, fetched |-> 0]
        ELSE IF cache /\ CacheHit(loaded.value)
            THEN [result |-> Returns(loaded.value), file |-> file, fetched |-> 0]
        ELSE IF format_type \notin SupportedFormats
            THEN [result |-> Raises("ValueError"), file |-> file, fetched |-> 0]
        ELSE IF requested.exc # "none"
            THEN [result |-> requested, file |-> file, fetched |-> 1]
        ELSE [result |-> IF Truthy(dataset) THEN Returns(dataset) ELSE Returns(PyNone),
              file |-> IF StoresResponse(dataset, cache)
                       THEN cache_response(dataset, current_time) ELSE file,
              fetched |-> 1]

NoCall == [op |-> "none"]
NotAsked == [exc |-> "not asked", value |-> PyNone]

\* a caller runs get_dataset
GetDataset ==
    /\ call = NoCall
    /\ \E dataset_id \in DatasetIds, geo \in GeoParams, format_type \in FormatTypes,
       cache \in BOOLEAN, cache_file \in CacheFiles :
      \E outcome \in RemoteOutcomes(dataset_id, geo) :
        LET r == get_dataset(files[cache_file], now, format_type, cache, outcome)
        IN  /\ files'  = [files EXCEPT ![cache_file] = r.file]
            /\ call' = [op |-> "get_dataset",
                        dataset_id |-> dataset_id, geo |-> geo,
                        format_type |-> format_type, cache |-> cache,
                        cache_file |-> cache_file,
                        at |-> now,
                        before |-> files[cache_file],
                        outcome |-> IF r.fetched = 1 THEN outcome ELSE NotAsked,
                        fetched |-> r.fetched,
                        result |-> r.result]
    /\ UNCHANGED <<now, ticks>>
    /\ UNCHANGED decode_vars
    /\ UNCHANGED api_vars
    /\ UNCHANGED conc_vars
    /\ UNCHANGED yahoo_vars

\* the caller has taken the result of the call
Taken ==
    /\ call # NoCall
    /\ call' = NoCall
    /\ UNCHANGED <<now, ticks, files>>
    /\ UNCHANGED decode_vars
    /\ UNCHANGED api_vars
    /\ UNCHANGED conc_vars
    /\ UNCHANGED yahoo_vars

\* time passes: one second, or one second less than the time-to-live
ClockSteps == {1, DefaultTimeout - 1}
Tick ==
    /\ call = NoCall
    /\ ticks < MaxTicks
    /\ \E d \in ClockSteps : now' = now + d
    /\ ticks' = ticks + 1
    /\ UNCHANGED <<files, call>>
    /\ UNCHANGED decode_vars
    /\ UNCHANGED api_vars
    /\ UNCHANGED conc_vars
    /\ UNCHANGED yahoo_vars

\* something outside the program damages a cache file: it is truncated to
\* something that is not JSON, or it loses one of its two fields
Damaged(file) ==
    {Garbage} \cup
    (IF file.kind = "json" /\ DOMAIN file.obj = {"data", "timestamp"}
     THEN {JsonFile([data |-> file.obj.data]), JsonFile([timestamp |-> file.obj.timestamp])}
     ELSE {})
DamageFile ==
    /\ call = NoCall
    /\ \E cache_file \in CacheFiles : \E d \in Damaged(files[cache_file]) :
         files' = [files EXCEPT ![cache_file] = d]
    /\ UNCHANGED <<now, ticks, call>>
    /\ UNCHANGED decode_vars
    /\ UNCHANGED api_vars
    /\ UNCHANGED conc_vars
    /\ UNCHANGED yahoo_vars

NoDecode == [n |-> 0, io |-> "ok", result |-> Returns(PyNone),
             indicator_dfs |-> EmptyDict]
NotCalled == Raises("not called")

CacheIdle ==
    /\ now = 0
    /\ ticks = 0
    /\ files = [f \in CacheFiles \cup RawDataFiles |-> Absent]
    /\ call = NoCall

DecodeIdle ==
    /\ dataset_json = [data |-> PyNone]
    /\ dec = NoDecode
    /\ prev = NotCalled

NoRequest == [op |-> "none"]
ApiIdle ==
    /\ requests = 0
    /\ response = NoRequest

\* the callers of get_dataset that run concurrently
Callers == {"a", "b"}
IdleThread == [pc |-> "idle"]
ConcIdle == threads = [t \in Callers |-> IdleThread]

\* the tickers asked for; no output directory exists at the start
Tickers == {"AAPL"}
NoDir == [kind |-> "no directory"]
NoReply == [op |-> "none"]
YahooIdle ==
    /\ saved = [ticker \in Tickers |-> NoDir]
    /\ reply = NoReply

Init == CacheIdle /\ DecodeIdle /\ ApiIdle /\ ConcIdle /\ YahooIdle

Next == GetDataset \/ Taken \/ Tick \/ DamageFile

Spec == Init /\ [][Next]_vars

-----------------------------------------------------------------------------
(* The response cache: claims C1-C4 and C9 *)

\* the stored entry is a complete one, {data, timestamp}
IsEntry(file) == file.kind = "json" /\ DOMAIN file.obj = {"data", "timestamp"}
\* ... and now - timestamp < ttl at time t
FreshAt(file, t) == IsEntry(file) /\ t - file.obj.timestamp < DefaultTimeout
\* ... or now - timestamp >= ttl at time t
StaleAt(file, t) == IsEntry(file) /\ t - file.obj.timestamp >= DefaultTimeout

Called == call.op = "get_dataset"
CachedCall == Called /\ call.cache
FetchFailed == call.fetched = 1 /\ call.outcome.exc \in TransportErrors
FetchedDataset == call.fetched = 1 /\ call.outcome.exc = "none" /\ Truthy(call.outcome.value)

\* C1: a get_dataset call with cache=True that finds a stored entry with
\* now - timestamp < ttl returns exactly the stored payload and does not
\* invoke _make_request.
C1_FreshEntryIsReturnedWithoutFetch ==
    (CachedCall /\ FreshAt(call.before, call.at)) =>
        /\ call.result = Returns(call.before.obj.data)
        /\ call.fetched = 0
        /\ files[call.cache_file] = call.before

\* a cache hit on an entry stored earlier, one second before it expires
C1_Witness ==
    /\ CachedCall /\ FreshAt(call.before, call.at)
    /\ call.at - call.before.obj.timestamp = DefaultTimeout - 1
    /\ call.fetched = 0
    /\ call.result = Returns(call.before.obj.data)

\* C2 as amended: with cache=True, a supported format_type and the entry
\* absent or stale, _make_request is invoked exactly once; if it delivers a
\* non-empty payload, the entry becomes {data: payload, timestamp: now}, the
\* payload is returned, and a read within ttl gives that payload back.
C2_MissFetchesOnceAndStores ==
    (/\ CachedCall
     /\ call.format_type \in SupportedFormats
     /\ (call.before = Absent \/ StaleAt(call.before, call.at))) =>
        /\ call.fetched = 1
        /\ (call.outcome.exc = "none" /\ Truthy(call.outcome.value)) =>
              /\ files[call.cache_file] =
                   JsonFile([data |-> call.outcome.value, timestamp |-> call.at])
              /\ call.result = Returns(call.outcome.value)
              /\ load_cache(files[call.cache_file], call.at + (DefaultTimeout - 1),
                            DefaultTimeout) = Returns(call.outcome.value)

\* an entry that is stale by exactly ttl seconds is replaced by another payload
C2_Witness ==
    /\ CachedCall /\ StaleAt(call.before, call.at)
    /\ call.at - call.before.obj.timestamp = DefaultTimeout
    /\ FetchedDataset
    /\ call.before.obj.data # call.outcome.value
    /\ files[call.cache_file].obj.data = call.outcome.value
    /\ call.result = Returns(call.outcome.value)

\* C2 as stated: for every format_type and every body the transport delivers
C2_Original ==
    (CachedCall /\ (call.before = Absent \/ StaleAt(call.before, call.at))) =>
        /\ call.fetched = 1
        /\ call.outcome.exc = "none" =>
              /\ files[call.cache_file] =
                   JsonFile([data |-> call.outcome.value, timestamp |-> call.at])
              /\ call.result = Returns(call.outcome.value)

\* C3: when a get_dataset call with cache=True finds no fresh entry and the
\* fetch fails (the transport raises), the stored entry is exactly as before:
\* same payload and timestamp, or still absent.
C3_FailedFetchLeavesEntry ==
    (CachedCall /\ FetchFailed) =>
        files[call.cache_file] = call.before

\* a failed fetch over a stale entry, which is kept
C3_Witness ==
    /\ CachedCall /\ FetchFailed
    /\ StaleAt(call.before, call.at)
    /\ files[call.cache_file] = call.before

\* what C4 calls a malformed stored entry: not JSON, or lacking a field
Malformed(file) == file.kind = "garbage" \/ (file.kind = "json" /\ ~IsEntry(file))

\* C4: a missing or malformed stored entry is a cache miss: the call goes on to
\* the fetch and raises nothing because of the stored entry.
C4_MalformedEntryIsAMiss ==
    (/\ CachedCall
     /\ call.format_type \in SupportedFormats
     /\ (call.before = Absent \/ Malformed(call.before))) =>
        /\ call.result.exc = "none"
        /\ call.fetched = 1

\* C9: a failure of the transport never leaves get_dataset as an exception:
\* the call returns None.
C9_TransportFailureGivesNone ==
    Called =>
        /\ call.result.exc \notin TransportErrors
        /\ FetchFailed => call.result = Returns(PyNone)

\* the generic handler at work: a connection error, and None returned
C9_Witness ==
    /\ Called
    /\ call.fetched = 1
    /\ call.outcome.exc = "ConnectionError"
    /\ call.result = Returns(PyNone)

-----------------------------------------------------------------------------
(* The decoder on its own: a caller holds a dataset and decodes it, once or *)
(* several times                                                            *)

\* the first n categories of an axis, {key: label}
TimeAxis(n) == SubSeq(<< <<"0", "2020">>, <<"1", "2021">>, <<"2", "2022">> >>, 1, n)
NaItemAxis(n) == SubSeq(<< <<"0", "GDP">>, <<"1", "CPI">>, <<"2", "EXP">> >>, 1, n)
GeoAxis(n) == SubSeq(<< <<"IT", "Italy">>, <<"DE", "Germany">> >>, 1, n)
UnitAxis(n) == SubSeq(<< <<"CP_MEUR", "EUR">> >>, 1, n)

\* the sizes tried for each axis
TimeSizes == {0, 1, 2}
NaItemSizes == {0, 1, 2}
GeoSizes == {1, 2}
UnitSizes == {1}
AxisNames == {"time", "na_item", "geo", "unit"}

\* the 'dimension' object with the axes in `present`
Dimension(present, t, i, g, u) ==
    [a \in present |->
       IF a = "time" THEN TimeAxis(t)
       ELSE IF a = "na_item" THEN NaItemAxis(i)
       ELSE IF a = "geo" THEN GeoAxis(g)
       ELSE UnitAxis(u)]
Dimensions ==
    {Dimension(present, t, i, g, u) :
        present \in SUBSET AxisNames,
        t \in TimeSizes, i \in NaItemSizes, g \in GeoSizes, u \in UnitSizes}

\* the value of the observation at linear index i
Observed(i) == 100 + i

\* the 'value' objects: up to MaxVals distinct keys among "0".."MaxIdx", in
\* every order in which a payload can list them
RECURSIVE KeyOrders(_)
KeyOrders(n) ==
    IF n = 0 THEN {<< >>}
    ELSE LET shorter == KeyOrders(n - 1)
         IN  shorter \cup
             {Append(ks, i) : ks \in {k \in shorter : Len(k) = n - 1}, i \in 0..MaxIdx}
DistinctKeys(ks) == \A a, b \in 1..Len(ks) : a # b => ks[a] # ks[b]
Values ==
    {[k \in 1..Len(ks) |-> <<Str(ks[k]), Observed(ks[k])>>] :
        ks \in {o \in KeyOrders(MaxVals) : DistinctKeys(o)}}

Dataset(dimension, value) ==
    [tag |-> "dataset", id |-> "nama_10_gdp", dimension |-> dimension, value |-> value]

\* the scenario of the specification: two years, two indicators
ScenarioDataset ==
    Dataset([time |-> << <<"0", "2020">>, <<"1", "2021">> >>,
             na_item |-> << <<"0", "GDP">>, <<"1", "CPI">> >>,
             geo |-> << <<"0", "IT">> >>,
             unit |-> << <<"0", "EUR">> >>],
            << <<Str(0), 100>>, <<Str(1), 200>>, <<Str(2), 5>>, <<Str(3), 7>> >>)

\* a value mapping with a gap at index 3
GapDataset ==
    Dataset(Dimension(AxisNames, 2, 2, 1, 1),
            << <<Str(0), 100>>, <<Str(1), 101>>, <<Str(2), 102>>, <<Str(4), 104>> >>)

\* a payload without a 'dimension' section
NoDimensionDataset == [tag |-> "dataset", id |-> "nama_10_gdp", value |-> << >>]

DecodeInputs ==
    {Dataset(d, v) : d \in Dimensions, v \in Values}
    \cup {ScenarioDataset, GapDataset, NoDimensionDataset, PyNone}

\* one call of process_dataset_to_json(dataset_json)
ProcessDataset ==
    /\ dec.n < MaxCalls
    /\ \E io \in IoOutcomes :
         LET r == process_dataset_to_json(dataset_json.data, io)
         IN  /\ dec' = [n |-> dec.n + 1, io |-> io, result |-> r.result,
                        indicator_dfs |-> r.indicator_dfs]
             /\ prev' = IF dec.n = 0 THEN NotCalled ELSE dec.result
    /\ UNCHANGED dataset_json
    /\ UNCHANGED cache_vars
    /\ UNCHANGED api_vars
    /\ UNCHANGED conc_vars
    /\ UNCHANGED yahoo_vars

InitDecode ==
    /\ CacheIdle
    /\ ApiIdle
    /\ ConcIdle
    /\ YahooIdle
    /\ dataset_json \in {[data |-> d] : d \in DecodeInputs}
    /\ dec = NoDecode
    /\ prev = NotCalled

NextDecode == ProcessDataset

SpecDecode == InitDecode /\ [][NextDecode]_vars

-----------------------------------------------------------------------------
(* The decoder: claims C5-C8 *)

Decoded == dec.n > 0
\* the call returned a table (a dict of indicator -> JSON text)
ReturnedTable(result) == result.exc = "none" /\ result.value.tag = "table"
\* the rows of an indicator in a returned table, and all indicators of it
RowsOf(result, indicator) == json_loads(DictGet(result.value.items, indicator))
Indicators(result) == {result.value.items[i][1] : i \in 1..Len(result.value.items)}

\* the payload handed to the decoder, and whether it is a valid one: the four
\* axes are there and none is empty
Payload == dataset_json.data
IsDataset(data) == data # PyNone /\ data.tag = "dataset"
HasAxes(data) ==
    /\ IsDataset(data)
    /\ "dimension" \in DOMAIN data
    /\ AxisNames \subseteq DOMAIN data.dimension
ValidPayload(data) ==
    /\ HasAxes(data)
    /\ \A a \in AxisNames : Len(data.dimension[a]) > 0

\* the label at a position (from 0) of an axis
LabelAt(axis, position) == axis[position + 1][2]

\* the (time, value) pairs of a sequence of rows
TimeValue(rows) == [k \in 1..Len(rows) |-> <<rows[k].time, rows[k].value>>]

\* C5: in a returned table, every key i of the value mapping has its
\* observation under the indicator at position (i div size(time)) mod
\* size(indicator), with the time label at position i mod size(time), and
\* the table holds no other observation; the scenario of the specification
\* decodes to GDP -> [(2020,100),(2021,200)], CPI -> [(2020,5),(2021,7)].
C5_IndexDecomposition ==
    (Decoded /\ ReturnedTable(dec.result)) =>
        LET time == Payload.dimension.time
            indicator == Payload.dimension.na_item
            values == Payload.value
            Place(k) == LabelAt(indicator,
                                (PyInt(values[k][1]) \div Len(time)) % Len(indicator))
            Time(k) == LabelAt(time, PyInt(values[k][1]) % Len(time))
        IN  /\ \A k \in 1..Len(values) :
                 /\ Place(k) \in Indicators(dec.result)
                 /\ \E r \in 1..Len(RowsOf(dec.result, Place(k))) :
                      /\ RowsOf(dec.result, Place(k))[r].time = Time(k)
                      /\ RowsOf(dec.result, Place(k))[r].value = values[k][2]
            /\ \A ind \in Indicators(dec.result) :
                 \A r \in 1..Len(RowsOf(dec.result, ind)) :
                   \E k \in 1..Len(values) :
                      /\ Place(k) = ind
                      /\ Time(k) = RowsOf(dec.result, ind)[r].time
                      /\ values[k][2] = RowsOf(dec.result, ind)[r].value
            /\ Payload = ScenarioDataset =>
                 /\ Indicators(dec.result) = {"GDP", "CPI"}
                 /\ TimeValue(RowsOf(dec.result, "GDP")) = << <<"2020", 100>>, <<"2021", 200>> >>
                 /\ TimeValue(RowsOf(dec.result, "CPI")) = << <<"2020", 5>>, <<"2021", 7>> >>

\* the scenario of the specification has been decoded
C5_Witness ==
    /\ Decoded /\ ReturnedTable(dec.result)
    /\ Payload = ScenarioDataset
    /\ TimeValue(RowsOf(dec.result, "CPI")) = << <<"2020", 5>>, <<"2021", 7>> >>

RECURSIVE SumRows(_, _)
SumRows(items, n) ==
    IF n = 0 THEN 0 ELSE SumRows(items, n - 1) + Len(json_loads(items[n][2]))
\* the observations of a returned table, over all indicators
TotalRows(result) == SumRows(result.value.items, Len(result.value.items))

\* C6: for a valid payload with one geo and one unit category (and no write
\* refused by the file system) the call returns a table, and a returned table
\* holds exactly as many observations as the value mapping has keys.
C6_OneObservationPerKey ==
    Decoded =>
        /\ (/\ ValidPayload(Payload)
            /\ Len(Payload.dimension.geo) = 1 /\ Len(Payload.dimension.unit) = 1
            /\ dec.io = "ok") => ReturnedTable(dec.result)
        /\ ReturnedTable(dec.result) => TotalRows(dec.result) = Len(Payload.value)

\* keys 0, 1, 2, 4: four observations
C6_Witness ==
    /\ Decoded /\ ReturnedTable(dec.result)
    /\ Payload = GapDataset
    /\ TotalRows(dec.result) = 4

\* C7: a payload that lacks a required axis, or the whole dimension section,
\* makes the call fail with an error; nothing is returned.
C7_MissingAxisRaises ==
    (Decoded /\ IsDataset(Payload) /\ ~HasAxes(Payload)) => dec.result.exc # "none"

\* C8: a second call on the same payload returns the table of the first: the
\* same indicators in the same order with the same observations, and nothing
\* of the first call in addition.
C8_SecondCallSameTable ==
    (dec.n >= 2 /\ ReturnedTable(prev) /\ ReturnedTable(dec.result)) =>
        /\ dec.result = prev
        /\ TotalRows(dec.result) = Len(Payload.value)

\* two calls on a payload with two indicators, both returning its table
C8_Witness ==
    /\ dec.n = 2 /\ ReturnedTable(prev) /\ ReturnedTable(dec.result)
    /\ Cardinality(Indicators(dec.result)) = 2
    /\ dec.result = prev

-----------------------------------------------------------------------------
(* generate_data of src/eurostat/api.py: fetch, decode, filter *)

\* request.indicators and request.time_range: None or a list, of which only
\* membership is used
NoList == [given |-> FALSE, names |-> {}]
List(names) == [given |-> TRUE, names |-> names]
\* "if indicators:", "if time_range:"
NonEmptyList(l) == l.given /\ l.names # {}

IndicatorLists == {NoList, List({}), List({"GDP"}), List({"CPI", "XXX"})}
TimeRanges == {NoList, List({}), List({"Y2020"}), List({"Y2020", "Y2021"})}

\* lines 136-137: every JSON text of the table is parsed
LoadTable(table) ==
    [i \in 1..Len(table.items) |-> <<table.items[i][1], json_loads(table.items[i][2])>>]

\* lines 139-140: the entries whose key is in indicators
FilterIndicators(processed, indicators) ==
    IF NonEmptyList(indicators)
    THEN LET Keep(item) == item[1] \in indicators.names
         IN  SelectSeq(processed, Keep)
    ELSE processed

\* a time filter that leaves its loop after the first entry
FilterTime_first_only(processed, time_range) ==
    IF NonEmptyList(time_range)
    THEN LET Keep(row) == row.time \in time_range.names
         IN  [i \in 1..Len(processed) |->
                IF i = 1 THEN <<processed[i][1], SelectSeq(processed[i][2], Keep)>>
                ELSE processed[i]]
    ELSE processed

\* lines 142-144: of every entry, the rows whose time is in time_range
FilterTime(processed, time_range) ==
    IF NonEmptyList(time_range)
    THEN LET Keep(row) == row.time \in time_range.names
         IN  [i \in 1..Len(processed) |->
                <<processed[i][1], SelectSeq(processed[i][2], Keep)>>]
    ELSE processed

NotReached == "not reached"

\* generate_data(request) as the n-th request, at time current_time.
\* output_dir says whether the directory output/ exists (the handler creates
\* ../output, and output/output_{_id} only if output/ is there); outcome is
\* what the transport does, io which write of the decoder is refused.  Beside
\* the result, gives the table as decoded at lines 133-137, before the filters.
generate_data(n, file, current_time, indicators, time_range, output_dir, outcome, io) ==
    IF ~output_dir
        \* line 125: open(f"output/output_{_id}/input_request.json", 'w')
        THEN [result |-> Raises("FileNotFoundError"), file |-> file, fetched |-> 0,
              outcome |-> NotAsked, io |-> NotReached, decoded |-> EmptyDict]
    ELSE
      LET got == get_dataset(file, current_time, "json", TRUE, outcome)
          processed == process_dataset_to_json(got.result.value, io)
      IN  IF got.result.exc # "none"
              THEN [result |-> got.result, file |-> got.file, fetched |-> got.fetched,
                    outcome |-> outcome, io |-> NotReached, decoded |-> EmptyDict]
          ELSE IF processed.result.exc # "none"
              THEN [result |-> processed.result, file |-> got.file,
                    fetched |-> got.fetched, outcome |-> outcome, io |-> io,
                    decoded |-> EmptyDict]
          ELSE IF processed.result.value = PyNone
              \* line 136: for key in None
              THEN [result |-> Raises("TypeError"), file |-> got.file,
                    fetched |-> got.fetched, outcome |-> outcome, io |-> io,
                    decoded |-> EmptyDict]
          ELSE [result |-> Returns(
                    [tag |-> "response", id |-> n,
                     raw_data |-> [data |-> got.result.value],
                     processed_data |->
                        FilterTime(FilterIndicators(LoadTable(processed.result.value),
                                                    indicators), time_range)]),
                file |-> got.file, fetched |-> got.fetched, outcome |-> outcome, io |-> io,
                decoded |-> LoadTable(processed.result.value)]

\* the HTTP layer serves one POST /generate_data/
GenerateData ==
    /\ response = NoRequest
    /\ requests < MaxRequests
    /\ \E dataset_id \in DatasetIds, geo \in GeoParams,
          indicators \in IndicatorLists, time_range \in TimeRanges,
          output_dir \in BOOLEAN, io \in IoOutcomes :
        \E outcome \in RemoteOutcomes(dataset_id, geo) :
          LET n == requests + 1
              r == generate_data(n, files[RawDataFile(n)], now, indicators, time_range,
                                 output_dir, outcome, io)
          IN  /\ files' = [files EXCEPT ![RawDataFile(n)] = r.file]
              /\ response' = [op |-> "generate_data",
                              dataset_id |-> dataset_id, geo |-> geo,
                              indicators |-> indicators, time_range |-> time_range,
                              output_dir |-> output_dir,
                              at |-> now,
                              fetched |-> r.fetched,
                              outcome |-> r.outcome,
                              io |-> r.io,
                              decoded |-> r.decoded,
                              result |-> r.result]
    /\ requests' = requests + 1
    /\ UNCHANGED <<now, ticks, call>>
    /\ UNCHANGED decode_vars
    /\ UNCHANGED conc_vars
    /\ UNCHANGED yahoo_vars

\* the response, or the error, has gone to the client
Responded ==
    /\ response # NoRequest
    /\ response' = NoRequest
    /\ UNCHANGED <<now, ticks, files, call, requests>>
    /\ UNCHANGED decode_vars
    /\ UNCHANGED conc_vars
    /\ UNCHANGED yahoo_vars

\* time passes between one request and the next
TickApi ==
    /\ response = NoRequest
    /\ ticks < MaxTicks
    /\ ticks < requests
    /\ \E d \in ClockSteps : now' = now + d
    /\ ticks' = ticks + 1
    /\ UNCHANGED <<files, call, requests, response>>
    /\ UNCHANGED decode_vars
    /\ UNCHANGED conc_vars
    /\ UNCHANGED yahoo_vars

NextApi == GenerateData \/ Responded \/ TickApi

SpecApi == Init /\ [][NextApi]_vars

\* the remote fetch of the request failed
RequestFetchFailed ==
    /\ response # NoRequest
    /\ response.fetched = 1
    /\ response.outcome.exc \in TransportErrors

\* C10: a generate_data request whose remote fetch fails completes by
\* returning a result to the caller; no exception comes out of the decode or
\* filter steps (the file system refusing no write).
C10_FetchFailureReturnsNoData ==
    (RequestFetchFailed /\ response.io = "ok") => response.result.exc = "none"

-----------------------------------------------------------------------------
(* The filters of generate_data: claims C11 and C12 *)

\* the request returned a response (raw data and filtered table)
Responds == response # NoRequest /\ response.result.exc = "none"
Served == response.result.value.processed_data

\* C11: filtering a table by an indicator set and then by a time set gives
\* the same table (keys, observations, order) as filtering by the time set
\* and then by the indicator set: for the filters of the request, whose
\* result the handler returns, and for every other pair of filters on the
\* table the handler decoded.
C11_FiltersCommute ==
    Responds =>
        /\ Served = FilterIndicators(FilterTime(response.decoded, response.time_range),
                                     response.indicators)
        /\ \A S \in IndicatorLists, T \in TimeRanges :
              FilterTime(FilterIndicators(response.decoded, S), T)
                = FilterIndicators(FilterTime(response.decoded, T), S)

\* both filters at work: the second indicator only, and one of its two years
C11_Witness ==
    /\ Responds
    /\ response.indicators = List({"CPI", "XXX"})
    /\ response.time_range = List({"Y2020"})
    /\ Len(response.decoded) = 2
    /\ Len(Served) = 1
    /\ Served[1][1] = "CPI"
    /\ Len(Served[1][2]) = 1
    /\ Served[1][2][1].time = "Y2020"

\* the entries of a table whose key is in a set of names
EntriesIn(table, names) ==
    LET Named(item) == item[1] \in names IN SelectSeq(table, Named)

\* C12: when the request supplies indicator names, the returned table has
\* exactly the entries of the decoded table whose key is among them, for every
\* supplied list: the empty one gives an empty table.
C12_IndicatorFilterExact ==
    (Responds /\ response.indicators.given) =>
        /\ DictKeys(Served) = DictKeys(EntriesIn(response.decoded, response.indicators.names))
        /\ ~NonEmptyList(response.time_range) =>
              Served = EntriesIn(response.decoded, response.indicators.names)

-----------------------------------------------------------------------------
(* The decoder: claims C13, C14 and C16 *)

\* all rows of a returned table
AllRows(result) ==
    UNION {{RowsOf(result, ind)[r] : r \in 1..Len(RowsOf(result, ind))} :
             ind \in Indicators(result)}

\* C13: every observation of a returned table has in its geo and unit fields
\* the label of the first category of the geo and of the unit axis.
C13_GeoUnitLabels ==
    (Decoded /\ ReturnedTable(dec.result)) =>
        \A row \in AllRows(dec.result) :
            /\ row.geo = LabelAt(Payload.dimension.geo, 0)
            /\ row.unit = LabelAt(Payload.dimension.unit, 0)

\* what the rows do carry: the key of the first category
C13_GeoUnitKeys ==
    (Decoded /\ ReturnedTable(dec.result)) =>
        \A row \in AllRows(dec.result) :
            /\ row.geo = Payload.dimension.geo[1][1]
            /\ row.unit = Payload.dimension.unit[1][1]

ExportFailures == {"table_json", "table_csv", "final_output"}

\* C14: when writing an export file fails, process_dataset_to_json still
\* returns the table it returns when every export succeeds.
C14_ExportFailureRecovered ==
    (/\ Decoded
     /\ dec.io \in ExportFailures
     /\ ReturnedTable(process_dataset_to_json(Payload, "ok").result)
     /\ Indicators(process_dataset_to_json(Payload, "ok").result) # {}) =>
        dec.result = process_dataset_to_json(Payload, "ok").result

\* the entries of a value mapping in ascending order of their numeric index
AscendingIndex(values) ==
    CHOOSE s \in [1..Len(values) -> {values[k] : k \in 1..Len(values)}] :
        \A i, j \in 1..Len(values) : i < j => PyInt(s[i][1]) < PyInt(s[j][1])

\* C16: within each indicator's list the observations are in ascending order
\* of linear index, whatever the order of the keys in the value mapping: the
\* lists are those of the same payload with its value mapping sorted by index.
C16_AscendingIndexOrder ==
    (Decoded /\ ReturnedTable(dec.result)) =>
        LET sorted == [Payload EXCEPT !.value = AscendingIndex(Payload.value)]
            expected == process_dataset_to_json(sorted, dec.io).result
        IN  \A ind \in Indicators(dec.result) :
                RowsOf(dec.result, ind) = RowsOf(expected, ind)

-----------------------------------------------------------------------------
(* The cache slot: claim C15 *)

\* the call was answered from the cache file
Hit == CachedCall /\ call.fetched = 0 /\ FreshAt(call.before, call.at)

\* C15: a cache hit never returns a payload that was stored for another
\* dataset identifier: the payload returned by a hit is the dataset asked for.
C15_HitIsForRequestedDataset ==
    Hit => /\ call.result.exc = "none"
           /\ call.result.value.id = call.dataset_id

-----------------------------------------------------------------------------
(* Requests that repeat: claim C17 *)

\* the entry stored by the request before this one
PriorEntry == files[RawDataFile(requests - 1)]

\* the request before this one fetched the same dataset with the same filter
\* and stored it less than ttl before this request
RepeatsWithinTtl ==
    /\ response # NoRequest
    /\ response.output_dir
    /\ requests >= 2
    /\ FreshAt(PriorEntry, response.at)
    /\ PriorEntry.obj.data.id = response.dataset_id
    /\ DictHas(PriorEntry.obj.data.dimension.geo, response.geo)

\* C17: a generate_data request that repeats, within ttl, a request whose
\* fetch succeeded is served from the stored entry: it makes no remote fetch.
C17_RepeatServedFromCache ==
    RepeatsWithinTtl => response.fetched = 0

-----------------------------------------------------------------------------
(* Concurrent callers of get_dataset(cache=True): claim C18 *)

Finished(result) == [pc |-> "done", result |-> result]

\* lines 89-100: the caller reads the cache file; on a miss it builds the
\* url and is about to call _make_request
BeginGetDataset(t) ==
    /\ threads[t].pc = "idle"
    /\ \E dataset_id \in DatasetIds, geo \in GeoParams, format_type \in FormatTypes,
          cache_file \in CacheFiles :
         LET loaded == load_cache(files[cache_file], now, DefaultTimeout)
         IN  threads' = [threads EXCEPT ![t] =
                 IF loaded.exc # "none" THEN Finished(loaded)
                 ELSE IF CacheHit(loaded.value) THEN Finished(Returns(loaded.value))
                 ELSE IF format_type \notin SupportedFormats
                     THEN Finished(Raises("ValueError"))
                 ELSE [pc |-> "fetching", dataset_id |-> dataset_id, geo |-> geo,
                       cache_file |-> cache_file]]
    /\ UNCHANGED cache_vars
    /\ UNCHANGED decode_vars
    /\ UNCHANGED api_vars
    /\ UNCHANGED yahoo_vars

\* lines 102-110: _make_request comes back; a truthy dataset goes on to
\* _cache_response, anything else ends the call with None
EndFetch(t) ==
    /\ threads[t].pc = "fetching"
    /\ \E outcome \in RemoteOutcomes(threads[t].dataset_id, threads[t].geo) :
         LET requested == make_request(outcome)
             dataset == requested.value
         IN  threads' = [threads EXCEPT ![t] =
                 IF requested.exc # "none" THEN Finished(requested)
                 ELSE IF StoresResponse(dataset, TRUE)
                     THEN [pc |-> "storing", cache_file |-> threads[t].cache_file,
                           dataset |-> dataset]
                 ELSE Finished(Returns(PyNone))]
    /\ UNCHANGED cache_vars
    /\ UNCHANGED decode_vars
    /\ UNCHANGED api_vars
    /\ UNCHANGED yahoo_vars

\* lines 53-55: _cache_response reads the clock and opens cache_file with
\* mode 'w', which empties it
OpenCacheFile(t) ==
    /\ threads[t].pc = "storing"
    /\ files' = [files EXCEPT ![threads[t].cache_file] = Garbage]
    /\ threads' = [threads EXCEPT ![t] =
           [pc |-> "writing", cache_file |-> threads[t].cache_file,
            dataset |-> threads[t].dataset, current_time |-> now]]
    /\ UNCHANGED <<now, ticks, call>>
    /\ UNCHANGED decode_vars
    /\ UNCHANGED api_vars
    /\ UNCHANGED yahoo_vars

\* lines 55-56 and 107: json.dump writes the entry, get_dataset returns the dataset
WriteCacheFile(t) ==
    /\ threads[t].pc = "writing"
    /\ files' = [files EXCEPT ![threads[t].cache_file] =
                     cache_response(threads[t].dataset, threads[t].current_time)]
    /\ threads' = [threads EXCEPT ![t] = Finished(Returns(threads[t].dataset))]
    /\ UNCHANGED <<now, ticks, call>>
    /\ UNCHANGED decode_vars
    /\ UNCHANGED api_vars
    /\ UNCHANGED yahoo_vars

\* the caller has its result and may call again
EndGetDataset(t) ==
    /\ threads[t].pc = "done"
    /\ threads' = [threads EXCEPT ![t] = IdleThread]
    /\ UNCHANGED cache_vars
    /\ UNCHANGED decode_vars
    /\ UNCHANGED api_vars
    /\ UNCHANGED yahoo_vars

NextConc ==
    \/ \E t \in Callers : BeginGetDataset(t)
    \/ \E t \in Callers : EndFetch(t)
    \/ \E t \in Callers : OpenCacheFile(t)
    \/ \E t \in Callers : WriteCacheFile(t)
    \/ \E t \in Callers : EndGetDataset(t)
    \/ Tick

SpecConc == Init /\ [][NextConc]_vars

\* the callers whose remote fetch for a cache file is in flight
Fetching(cache_file) ==
    {t \in Callers : threads[t].pc = "fetching" /\ threads[t].cache_file = cache_file}

\* C18: at most one remote fetch per cache key is in flight at any time.
C18_SingleFlight ==
    \A cache_file \in CacheFiles : Cardinality(Fetching(cache_file)) <= 1

-----------------------------------------------------------------------------
(* The financial SDK: ESGDataFetcher and the dispatch of generate_data *)

\* a str, a DataFrame or Series of the provider, the dict company.info
Message(text) == [tag |-> "str", text |-> text]
Frame(attribute, ticker, column) ==
    [tag |-> "frame", attribute |-> attribute, ticker |-> ticker, column |-> column]
Info(ticker) == [tag |-> "info", ticker |-> ticker]

\* GenerateDataRequest.data_id: the values of the Literal
AcceptedDataIds ==
    {"esg_data", "company_data", "financials_data", "dividends_data", "stock_history"}

\* the dict getters of generate_data, by the name of the bound method
Getters ==
    << <<"esg_data", "get_esg_data">>,
       <<"company_data", "get_company_info">>,
       <<"financials_data", "get_financials">>,
       <<"dividends_history", "get_dividends">>,
       <<"stock_history", "get_stock_history">> >>

\* the keyword parameters each handler takes
Accepts(handler) ==
    IF handler = "get_financials" THEN {"year"}
    ELSE IF handler = "get_stock_history" THEN {"period"}
    ELSE {}

\* request.data_params
ProviderYears == {"2024"}
DataParams ==
    {EmptyDict} \cup {<< <<"year", y>> >> : y \in {"latest", "2024", "1999"}}
                \cup {<< <<"period", "max">> >>}
Param(data_params, name, default) ==
    IF DictHas(data_params, name) THEN DictGet(data_params, name) ELSE default

\* what an attribute of yf.Ticker gives: data, nothing, or an exception
ProviderOutcomes == {"data", "empty", "error"}
\* what a write to the output directory does: it succeeds, it is refused and
\* leaves the file as it was, or it stops half way
WriteOutcomes == {"ok", "refused", "partial"}

\* the directory output/{ticker} and its files {ticker}_{name}.json
OutputFiles ==
    {"esg_data", "company_info", "bilancio", "conto_economico", "flussi_di_cassa",
     "dividends", "stock_history"}
EmptyDir == [kind |-> "directory", files |-> [f \in OutputFiles |-> Absent]]

\* load_json: the content of the file, None after any exception
load_json(file) == IF file.kind = "json" THEN file.obj ELSE PyNone

\* the file after an attempt to write data to it
Written(file, data, write) ==
    IF write = "ok" THEN JsonFile(data)
    ELSE IF write = "partial" THEN Garbage
    ELSE file

\* save_json: json.dump to the file, the exception swallowed, then load_json
save_json(dir, filename, data, write) ==
    LET file == Written(dir.files[filename], data, write)
    IN  [dir |-> [dir EXCEPT !.files[filename] = file], value |-> load_json(file)]

\* save_dataframe_to_json: df.to_json to the file, the exception swallowed
\* (a str has no to_json: AttributeError), then load_json
save_dataframe_to_json(dir, filename, df, write) ==
    IF df.tag # "frame"
        THEN [dir |-> dir, value |-> load_json(dir.files[filename])]
    ELSE save_json(dir, filename, df, write)

\* get_esg_data
get_esg_data(ticker, dir, outcome, write) ==
    IF outcome = "error"
        THEN [dir |-> dir, value |-> Message("Errore nel recupero dei dati ESG")]
    ELSE IF outcome = "empty"
        THEN [dir |-> dir, value |-> Message("Dati ESG non disponibili per questo ticker.")]
    ELSE save_dataframe_to_json(dir, "esg_data", Frame("sustainability", ticker, "all"),
                                write)

\* get_company_info: company.info is saved whatever it holds
get_company_info(ticker, dir, outcome, write) ==
    IF outcome = "error"
        THEN [dir |-> dir,
              value |-> Message("Errore nel recupero delle informazioni aziendali")]
    ELSE save_json(dir, "company_info", Info(ticker), write)

\* _filter_by_year: a message, the first column, or the column of the year
filter_by_year(attribute, ticker, outcome, year) ==
    IF outcome = "empty" THEN Message("Dati non disponibili")
    ELSE IF year = "latest" THEN Frame(attribute, ticker, "2024")
    ELSE IF year \in ProviderYears THEN Frame(attribute, ticker, year)
    ELSE Message("Anno non trovato nei dati finanziari.")

\* get_financials(year="latest"): the three statements are read and filtered
\* first, then saved one after the other
get_financials(ticker, dir, outcomes, write, year) ==
    IF \E i \in 1..3 : outcomes[i] = "error"
        THEN [dir |-> dir, value |-> Message("Errore nel recupero dei dati finanziari")]
    ELSE
      LET s1 == save_dataframe_to_json(dir, "bilancio",
                    filter_by_year("balance_sheet", ticker, outcomes[1], year), write)
          s2 == save_dataframe_to_json(s1.dir, "conto_economico",
                    filter_by_year("financials", ticker, outcomes[2], year), write)
          s3 == save_dataframe_to_json(s2.dir, "flussi_di_cassa",
                    filter_by_year("cashflow", ticker, outcomes[3], year), write)
      IN  [dir |-> s3.dir,
           value |-> [tag |-> "dict", bilancio |-> s1.value,
                      conto_economico |-> s2.value, flussi_di_cassa |-> s3.value]]

\* get_dividends
get_dividends(ticker, dir, outcome, write) ==
    IF outcome = "error"
        THEN [dir |-> dir,
              value |-> Message("Errore nel recupero della storia dei dividendi")]
    ELSE IF outcome = "empty"
        THEN [dir |-> dir, value |-> Message("Nessun dividendo disponibile per questo ticker.")]
    ELSE save_dataframe_to_json(dir, "dividends", Frame("dividends", ticker, "all"), write)

\* get_stock_history(period="1y")
get_stock_history(ticker, dir, outcome, write, period) ==
    IF outcome = "error"
        THEN [dir |-> dir,
              value |-> Message("Errore nel recupero della storia dei prezzi")]
    ELSE IF outcome = "empty"
        THEN [dir |-> dir,
              value |-> Message("Nessun dato di prezzi per il periodo specificato")]
    ELSE save_dataframe_to_json(dir, "stock_history", Frame("history", ticker, period),
                                write)

\* getters[data_id](**data_params), for a handler the dict holds
CallHandler(handler, ticker, dir, data_params, outcomes, write) ==
    IF handler = "get_esg_data" THEN get_esg_data(ticker, dir, outcomes[1], write)
    ELSE IF handler = "get_company_info"
        THEN get_company_info(ticker, dir, outcomes[1], write)
    ELSE IF handler = "get_financials"
        THEN get_financials(ticker, dir, outcomes, write,
                            Param(data_params, "year", "latest"))
    ELSE IF handler = "get_dividends" THEN get_dividends(ticker, dir, outcomes[1], write)
    ELSE get_stock_history(ticker, dir, outcomes[1], write,
                           Param(data_params, "period", "1y"))

\* ESGDataFetcher.__init__: the directory output/{ticker} is created if it
\* is not there; os.makedirs may fail
ESGDataFetcher(dir, makedirs_ok) ==
    IF dir # NoDir THEN dir
    ELSE IF makedirs_ok THEN EmptyDir
    ELSE NoDir

\* generate_data(request) of yahoo_finance_sdk.py: the result of the call and
\* the directory of the ticker after it
financial_generate_data(ticker, data_id, data_params, dir, makedirs_ok, outcomes, write) ==
    LET made == ESGDataFetcher(dir, makedirs_ok)
    IN  IF made = NoDir THEN [result |-> Raises("OSError"), dir |-> dir]
        ELSE IF ~DictHas(Getters, data_id)
            THEN [result |-> Raises("KeyError"), dir |-> made]
        ELSE
          LET handler == DictGet(Getters, data_id)
              keywords == {DictKeys(data_params)[i] : i \in 1..Len(data_params)}
          IN  IF ~(keywords \subseteq Accepts(handler))
                  THEN [result |-> Raises("TypeError"), dir |-> made]
              ELSE LET r == CallHandler(handler, ticker, made, data_params, outcomes, write)
                   IN  [result |-> Returns(r.value), dir |-> r.dir]

\* a caller runs the financial generate_data
FinancialGenerateData ==
    /\ reply = NoReply
    /\ \E ticker \in Tickers, data_id \in AcceptedDataIds, data_params \in DataParams,
          makedirs_ok \in BOOLEAN, outcomes \in [1..3 -> ProviderOutcomes],
          write \in WriteOutcomes :
         LET r == financial_generate_data(ticker, data_id, data_params, saved[ticker],
                                          makedirs_ok, outcomes, write)
         IN  /\ saved' = [saved EXCEPT ![ticker] = r.dir]
             /\ reply' = [op |-> "generate_data", ticker |-> ticker,
                          data_id |-> data_id, data_params |-> data_params,
                          result |-> r.result]
    /\ UNCHANGED cache_vars
    /\ UNCHANGED decode_vars
    /\ UNCHANGED api_vars
    /\ UNCHANGED conc_vars

\* the caller has taken the result
FinancialReplied ==
    /\ reply # NoReply
    /\ reply' = NoReply
    /\ UNCHANGED saved
    /\ UNCHANGED cache_vars
    /\ UNCHANGED decode_vars
    /\ UNCHANGED api_vars
    /\ UNCHANGED conc_vars

NextYahoo == FinancialGenerateData \/ FinancialReplied

SpecYahoo == Init /\ [][NextYahoo]_vars

\* C19: every data_id that GenerateDataRequest accepts has a handler in the
\* dispatch mapping: a call with an accepted data_id never fails with the
\* KeyError of an unknown identifier.
C19_AcceptedIdHasHandler ==
    (reply # NoReply /\ reply.data_id \in AcceptedDataIds) =>
        reply.result.exc # "KeyError"

====
